---- MODULE Spec2Model ----
(***************************************************************************)
(* Model of ei-type (markc/voice): the EIS session establisher             *)
(* (EisConnection::connect), the emulation driver (type_text, type_key,    *)
(* send_key_combo, dispatch) and the keymap (char_to_key, parse_combo).    *)
(*                                                                         *)
(* Characters are Unicode scalar values (integers); strings are sequences  *)
(* of them.  Protocol requests and the events that matter for ordering are *)
(* appended to `trace` as records [k, a, b].                               *)
(***************************************************************************)
EXTENDS Integers, Sequences, FiniteSets, TLC

VARIABLES
    pc,                 \* position of the single thread of control
    socket,             \* events sent by the server, not yet read by context.read()
    pending,            \* events read into the context, not yet taken by pending_event()
    outbuf,             \* requests enqueued in the context, not yet flushed
    wire,               \* requests flushed to the transport
    trace,              \* requests, flushes and event arrivals in program order
    result,             \* "none" while running, "Ok" or the error returned
    last_serial,        \* connect's local last_serial / the handle's last_serial
    seat_caps,          \* connect: HashMap<String, u64>
    keyboard,           \* connect: Option<ei::Keyboard>  (0 = None, else owning device)
    kbd_device,         \* connect: Option<ei::Device>    (0 = None)
    device_interfaces,  \* connect: HashMap<String, Object> (value = owning device)
    ready,              \* connect: ready flag
    had_events,         \* connect: had_events flag of the current loop iteration
    timeout_count,      \* connect: number of empty polls so far
    hist,               \* history of the establishment (observations only)
    input,              \* driver: the operation and its argument
    idx,                \* driver: index of the character type_text is at
    cur                 \* driver: the parsed combo or the key of the running type_key

vars == << pc, socket, pending, outbuf, wire, trace, result, last_serial,
           seat_caps, keyboard, kbd_device, device_interfaces, ready,
           had_events, timeout_count, hist, input, idx, cur >>

-----------------------------------------------------------------------------
(* keymap.rs: evdev keycodes *)

KEY_ESC == 1
KEY_1 == 2
KEY_2 == 3
KEY_3 == 4
KEY_4 == 5
KEY_5 == 6
KEY_6 == 7
KEY_7 == 8
KEY_8 == 9
KEY_9 == 10
KEY_0 == 11
KEY_MINUS == 12
KEY_EQUAL == 13
KEY_TAB == 15
KEY_Q == 16
KEY_W == 17
KEY_E == 18
KEY_R == 19
KEY_T == 20
KEY_Y == 21
KEY_U == 22
KEY_I == 23
KEY_O == 24
KEY_P == 25
KEY_LEFTBRACE == 26
KEY_RIGHTBRACE == 27
KEY_ENTER == 28
KEY_LEFTCTRL == 29
KEY_A == 30
KEY_S == 31
KEY_D == 32
KEY_F == 33
KEY_G == 34
KEY_H == 35
KEY_J == 36
KEY_K == 37
KEY_L == 38
KEY_SEMICOLON == 39
KEY_APOSTROPHE == 40
KEY_GRAVE == 41
KEY_LEFTSHIFT == 42
KEY_BACKSLASH == 43
KEY_Z == 44
KEY_X == 45
KEY_C == 46
KEY_V == 47
KEY_B == 48
KEY_N == 49
KEY_M == 50
KEY_COMMA == 51
KEY_DOT == 52
KEY_SLASH == 53
KEY_LEFTALT == 56
KEY_SPACE == 57
KEY_LEFTMETA == 125

AZ_CODES ==
    << KEY_A, KEY_B, KEY_C, KEY_D, KEY_E, KEY_F, KEY_G, KEY_H, KEY_I,
       KEY_J, KEY_K, KEY_L, KEY_M, KEY_N, KEY_O, KEY_P, KEY_Q, KEY_R,
       KEY_S, KEY_T, KEY_U, KEY_V, KEY_W, KEY_X, KEY_Y, KEY_Z >>

\* Option<KeyInfo>
SomeKey(code, shift) == [some |-> TRUE, code |-> code, shift |-> shift]
NoKey == [some |-> FALSE, code |-> 0, shift |-> FALSE]

\* The arms of char_to_key for punctuation and whitespace: char -> <<code, shift>>
PunctKeys ==
    ( 48 :> <<KEY_0, FALSE>> @@ 32 :> <<KEY_SPACE, FALSE>> @@
      10 :> <<KEY_ENTER, FALSE>> @@ 9 :> <<KEY_TAB, FALSE>> @@
      45 :> <<KEY_MINUS, FALSE>> @@ 61 :> <<KEY_EQUAL, FALSE>> @@
      91 :> <<KEY_LEFTBRACE, FALSE>> @@ 93 :> <<KEY_RIGHTBRACE, FALSE>> @@
      92 :> <<KEY_BACKSLASH, FALSE>> @@ 59 :> <<KEY_SEMICOLON, FALSE>> @@
      39 :> <<KEY_APOSTROPHE, FALSE>> @@ 96 :> <<KEY_GRAVE, FALSE>> @@
      44 :> <<KEY_COMMA, FALSE>> @@ 46 :> <<KEY_DOT, FALSE>> @@
      47 :> <<KEY_SLASH, FALSE>> @@
      33 :> <<KEY_1, TRUE>> @@ 64 :> <<KEY_2, TRUE>> @@ 35 :> <<KEY_3, TRUE>> @@
      36 :> <<KEY_4, TRUE>> @@ 37 :> <<KEY_5, TRUE>> @@ 94 :> <<KEY_6, TRUE>> @@
      38 :> <<KEY_7, TRUE>> @@ 42 :> <<KEY_8, TRUE>> @@ 40 :> <<KEY_9, TRUE>> @@
      41 :> <<KEY_0, TRUE>> @@ 95 :> <<KEY_MINUS, TRUE>> @@
      43 :> <<KEY_EQUAL, TRUE>> @@ 123 :> <<KEY_LEFTBRACE, TRUE>> @@
      125 :> <<KEY_RIGHTBRACE, TRUE>> @@ 124 :> <<KEY_BACKSLASH, TRUE>> @@
      58 :> <<KEY_SEMICOLON, TRUE>> @@ 34 :> <<KEY_APOSTROPHE, TRUE>> @@
      126 :> <<KEY_GRAVE, TRUE>> @@ 60 :> <<KEY_COMMA, TRUE>> @@
      62 :> <<KEY_DOT, TRUE>> @@ 63 :> <<KEY_SLASH, TRUE>> )

\* char_to_key with the uppercase arm reporting no shift
char_to_key_UpperUnshifted(c) ==
    IF c >= 97 /\ c <= 122 THEN SomeKey(AZ_CODES[(c - 97) + 1], FALSE)
    ELSE IF c >= 65 /\ c <= 90 THEN SomeKey(AZ_CODES[(c - 65) + 1], FALSE)
    ELSE IF c >= 49 /\ c <= 57 THEN SomeKey(KEY_1 + (c - 49), FALSE)
    ELSE IF c \in DOMAIN PunctKeys THEN SomeKey(PunctKeys[c][1], PunctKeys[c][2])
    ELSE NoKey

char_to_key(c) ==
    IF c >= 97 /\ c <= 122 THEN SomeKey(AZ_CODES[(c - 97) + 1], FALSE)
    ELSE IF c >= 65 /\ c <= 90 THEN SomeKey(AZ_CODES[(c - 65) + 1], TRUE)
    ELSE IF c >= 49 /\ c <= 57 THEN SomeKey(KEY_1 + (c - 49), FALSE)
    ELSE IF c \in DOMAIN PunctKeys THEN SomeKey(PunctKeys[c][1], PunctKeys[c][2])
    ELSE NoKey

-----------------------------------------------------------------------------
(* keymap.rs: parse_combo *)

\* char::to_lowercase for the characters of the model's alphabet:
\* ASCII capitals, and U+212A KELVIN SIGN whose lowercase is 'k'.
CharToLower(c) ==
    IF c >= 65 /\ c <= 90 THEN c + 32
    ELSE IF c = 8490 THEN 107
    ELSE c

to_lowercase(s) == [i \in 1..Len(s) |-> CharToLower(s[i])]

\* length in bytes of the UTF-8 encoding of a character
Utf8Len(c) == IF c < 128 THEN 1 ELSE IF c < 2048 THEN 2 ELSE IF c < 65536 THEN 3 ELSE 4

RECURSIVE ByteLen(_)
\* str::len(): the length of a string in bytes
ByteLen(s) == IF s = << >> THEN 0 ELSE Utf8Len(Head(s)) + ByteLen(Tail(s))

RECURSIVE SplitAcc(_, _, _)
SplitAcc(s, sep, acc) ==
    IF s = << >> THEN << acc >>
    ELSE IF Head(s) = sep THEN << acc >> \o SplitAcc(Tail(s), sep, << >>)
    ELSE SplitAcc(Tail(s), sep, Append(acc, Head(s)))

\* str::split(sep).collect(): never empty, "" splits to [""]
Split(s, sep) == SplitAcc(s, sep, << >>)

Contains(seq, x) == \E i \in 1..Len(seq) : seq[i] = x

S_ctrl == << 99, 116, 114, 108 >>
S_control == << 99, 111, 110, 116, 114, 111, 108 >>
S_shift == << 115, 104, 105, 102, 116 >>
S_alt == << 97, 108, 116 >>
S_super == << 115, 117, 112, 101, 114 >>
S_meta == << 109, 101, 116, 97 >>
S_enter == << 101, 110, 116, 101, 114 >>
S_return == << 114, 101, 116, 117, 114, 110 >>
S_tab == << 116, 97, 98 >>
S_space == << 115, 112, 97, 99, 101 >>
S_esc == << 101, 115, 99 >>
S_escape == << 101, 115, 99, 97, 112, 101 >>

\* the match on a lowercased modifier token; 0 = the `other` arm
ModifierCode(part) ==
    LET p == to_lowercase(part) IN
    IF p = S_ctrl \/ p = S_control THEN KEY_LEFTCTRL
    ELSE IF p = S_shift THEN KEY_LEFTSHIFT
    ELSE IF p = S_alt THEN KEY_LEFTALT
    ELSE IF p = S_super \/ p = S_meta THEN KEY_LEFTMETA
    ELSE 0

\* the match on a lowercased named key; 0 = the `other` arm
NamedKeyCode(key_str) ==
    IF key_str = S_enter \/ key_str = S_return THEN KEY_ENTER
    ELSE IF key_str = S_tab THEN KEY_TAB
    ELSE IF key_str = S_space THEN KEY_SPACE
    ELSE IF key_str = S_esc \/ key_str = S_escape THEN KEY_ESC
    ELSE 0

ComboOk(modifiers, keycode) ==
    [ok |-> TRUE, modifiers |-> modifiers, key |-> keycode, err |-> "none"]
ComboErr(e) == [ok |-> FALSE, modifiers |-> << >>, key |-> 0, err |-> e]

\* parse_combo collecting the modifiers in reverse order
parse_combo_ModsReversed(combo) ==
    LET parts == Split(combo, 43)
        n == Len(parts)
        mods == [i \in 1..(n - 1) |-> ModifierCode(parts[n - i])]
        key_str == to_lowercase(parts[n])
    IN  IF Contains(mods, 0) THEN ComboErr("unknown modifier")
        ELSE IF ByteLen(key_str) = 1
        THEN LET ki == char_to_key(key_str[1]) IN
             IF ~ki.some THEN ComboErr("unknown key")
             ELSE IF ki.shift /\ ~Contains(mods, KEY_LEFTSHIFT)
                  THEN ComboOk(Append(mods, KEY_LEFTSHIFT), ki.code)
                  ELSE ComboOk(mods, ki.code)
        ELSE IF NamedKeyCode(key_str) = 0 THEN ComboErr("unknown key")
             ELSE ComboOk(mods, NamedKeyCode(key_str))

parse_combo(combo) ==
    LET parts == Split(combo, 43)
        n == Len(parts)
        mods == [i \in 1..(n - 1) |-> ModifierCode(parts[i])]
        key_str == to_lowercase(parts[n])
    IN  IF Contains(mods, 0) THEN ComboErr("unknown modifier")
        ELSE IF ByteLen(key_str) = 1
        THEN LET ki == char_to_key(key_str[1]) IN
             IF ~ki.some THEN ComboErr("unknown key")
             ELSE IF ki.shift /\ ~Contains(mods, KEY_LEFTSHIFT)
                  THEN ComboOk(Append(mods, KEY_LEFTSHIFT), ki.code)
                  ELSE ComboOk(mods, ki.code)
        ELSE IF NamedKeyCode(key_str) = 0 THEN ComboErr("unknown key")
             ELSE ComboOk(mods, NamedKeyCode(key_str))

-----------------------------------------------------------------------------
(* Protocol requests and events recorded in `trace` *)

Req(k, a, b) == [k |-> k, a |-> a, b |-> b]

Press == 1
Released == 0

KeyReq(code, state) == Req("key", code, state)          \* keyboard.key(code, state)
FrameReq(serial) == Req("frame", serial, 0)              \* device.frame(serial, 0)
PingDone == Req("done", 0, 0)                            \* ping.done(0)

RECURSIVE Reverse(_)
\* iter().rev()
Reverse(s) == IF s = << >> THEN << >> ELSE Append(Reverse(Tail(s)), Head(s))

RECURSIVE Concat(_)
Concat(ss) == IF ss = << >> THEN << >> ELSE Head(ss) \o Concat(Tail(ss))

\* an event delivered by the server: kind, object it is addressed to, arguments
Ev(k, o, a, b) == [k |-> k, o |-> o, a |-> a, b |-> b]

IsPing(e) == e.k = "Ping"

\* the answers dispatch (and the drains of connect) enqueue for a batch of events
PingAnswers(events) == [i \in 1..Len(SelectSeq(events, IsPing)) |-> PingDone]

-----------------------------------------------------------------------------
(* State shared by the establisher and the driver *)

EmptyMap == [x \in {} |-> 0]

\* what has been observed of the establishment so far
HistInit ==
    [ sent |-> 0,             \* events delivered by the server
      serial |-> 1,           \* the server's serial counter
      devSent |-> FALSE,      \* the server has sent an event about a device
      kbdSent |-> FALSE,      \* the server has sent an ei_keyboard Interface event
      polls |-> 0,            \* polls that returned Ok (counted up to max_timeouts + 1)
      eintr |-> 0,            \* interrupted polls in a row
      discConsumed |-> FALSE, \* a Disconnected event was taken from pending_event()
      bindAfterDisc |-> FALSE,\* seat.bind was called after that
      kbd |-> {},             \* devices whose ei_keyboard Interface event was handled
      done |-> {},            \* devices whose Done event was handled
      resumed |-> {},         \* devices whose Resumed event was handled
      readyBy |-> {},         \* the device whose Resumed event set ready
      lastResumed |-> 0,      \* the serial of the last Resumed event handled
      caps |-> [s \in {1, 2} |-> {}],  \* masks announced per seat (handled)
      lastBind |-> [seat |-> 0, mask |-> 0, announced |-> {}] ]
                              \* the last seat.bind call: seat, mask bound, and
                              \* the masks announced for that seat until then

-----------------------------------------------------------------------------
(* Bounds and input sets of the emulation driver *)

MaxTextLen == 2
MaxTokens == 3
MaxIncoming == 2

TextChars == { 97, 66, 233 }             \* 'a', 'B', and the unmapped U+00E9
Texts == UNION { [1..n -> TextChars] : n \in 0..MaxTextLen }

\* "ctrl", "Shift", "alt", "foo", "v", "A", "!", "enter", U+001B, ""
Tokens ==
    { S_ctrl, << 83, 104, 105, 102, 116 >>, S_alt, << 102, 111, 111 >>,
      << 118 >>, << 65 >>, << 33 >>, S_enter, << 27 >>, << >> }

RECURSIVE Join(_)
Join(toks) ==
    IF Len(toks) = 1 THEN toks[1] ELSE toks[1] \o << 43 >> \o Join(Tail(toks))

Combos == { Join(t) : t \in UNION { [1..n -> Tokens] : n \in 1..MaxTokens } }

HandleSerials == { 1, 2 }

\* events the server may send while the driver runs
DriverEvents == { Ev("Ping", 0, 0, 0), Ev("Keyboard", 0, 0, 0) }

NoCur == [code |-> 0, shift |-> FALSE, modifiers |-> << >>]

-----------------------------------------------------------------------------
(* eis.rs: the emulation driver *)

\* type_key with the frame after the shift press left out
TkPressReqs_NoShiftFrame(code, shift, serial) ==
    (IF shift THEN << KeyReq(KEY_LEFTSHIFT, Press) >> ELSE << >>)
    \o << KeyReq(code, Press), FrameReq(serial) >>

\* lines 344-350: the presses of type_key
TkPressReqs(code, shift, serial) ==
    (IF shift THEN << KeyReq(KEY_LEFTSHIFT, Press), FrameReq(serial) >> ELSE << >>)
    \o << KeyReq(code, Press), FrameReq(serial) >>

\* lines 354-360: the releases of type_key
TkReleaseReqs(code, shift, serial) ==
    << KeyReq(code, Released), FrameReq(serial) >>
    \o (IF shift THEN << KeyReq(KEY_LEFTSHIFT, Released), FrameReq(serial) >> ELSE << >>)

\* lines 313-320: the presses of send_key_combo
KcPressReqs(modifiers, keycode, serial) ==
    Concat([i \in 1..Len(modifiers) |->
              << KeyReq(modifiers[i], Press), FrameReq(serial) >>])
    \o << KeyReq(keycode, Press), FrameReq(serial) >>

\* send_key_combo releasing the modifiers in press order
KcReleaseReqs_Forward(modifiers, keycode, serial) ==
    << KeyReq(keycode, Released), FrameReq(serial) >>
    \o Concat([i \in 1..Len(modifiers) |->
                 << KeyReq(modifiers[i], Released), FrameReq(serial) >>])

\* lines 324-331: the releases of send_key_combo
KcReleaseReqs(modifiers, keycode, serial) ==
    << KeyReq(keycode, Released), FrameReq(serial) >>
    \o Concat([i \in 1..Len(modifiers) |->
                 << KeyReq(Reverse(modifiers)[i], Released), FrameReq(serial) >>])

DriverFrame == << seat_caps, keyboard, kbd_device, device_interfaces, ready,
                  had_events, timeout_count, hist, input, last_serial >>

\* enqueue reqs, then context.flush()?; on failure the operation returns the error
\* a flush whose error is dropped instead of returned
EnqueueAndFlush_IgnoreError(reqs, ok, nextpc) ==
    /\ trace' = trace \o reqs \o << Req("flush", IF ok THEN 1 ELSE 0, 0) >>
    /\ IF ok
       THEN /\ wire' = wire \o outbuf \o reqs
            /\ outbuf' = << >>
       ELSE /\ wire' = wire
            /\ outbuf' = outbuf \o reqs
    /\ pc' = nextpc
    /\ result' = result

EnqueueAndFlush(reqs, ok, nextpc) ==
    /\ trace' = trace \o reqs \o << Req("flush", IF ok THEN 1 ELSE 0, 0) >>
    /\ IF ok
       THEN /\ wire' = wire \o outbuf \o reqs
            /\ outbuf' = << >>
            /\ pc' = nextpc
            /\ result' = result
       ELSE /\ wire' = wire
            /\ outbuf' = outbuf \o reqs
            /\ pc' = "done"
            /\ result' = "TransportError"

\* dispatch(): read what the socket holds, answer every ping, discard the rest
Dispatch ==
    /\ outbuf' = outbuf \o PingAnswers(pending \o socket)
    /\ trace' = trace \o PingAnswers(pending \o socket)
    /\ socket' = << >>
    /\ pending' = << >>

\* type_text giving up at the first character without a mapping
TypeTextNext_AbortOnUnmapped ==
    /\ pc = "tt_loop"
    /\ idx <= Len(input.text)
    /\ LET ki == char_to_key(input.text[idx]) IN
       IF ki.some
       THEN /\ pc' = "tk_press"
            /\ cur' = [code |-> ki.code, shift |-> ki.shift, modifiers |-> << >>]
            /\ idx' = idx
            /\ trace' = Append(trace, Req("type_key", ki.code, IF ki.shift THEN 1 ELSE 0))
            /\ result' = result
       ELSE /\ pc' = "done"
            /\ result' = "unknown key"
            /\ UNCHANGED << idx, cur, trace >>
    /\ UNCHANGED << socket, pending, outbuf, wire >>
    /\ UNCHANGED DriverFrame

\* type_text: the for loop takes the next character
TypeTextNext ==
    /\ pc = "tt_loop"
    /\ idx <= Len(input.text)
    /\ LET ki == char_to_key(input.text[idx]) IN
       IF ki.some
       THEN /\ pc' = "tk_press"
            /\ cur' = [code |-> ki.code, shift |-> ki.shift, modifiers |-> << >>]
            /\ idx' = idx
            /\ trace' = Append(trace, Req("type_key", ki.code, IF ki.shift THEN 1 ELSE 0))
       ELSE /\ pc' = "tt_loop"
            /\ idx' = idx + 1
            /\ UNCHANGED << cur, trace >>
    /\ UNCHANGED << socket, pending, outbuf, wire, result >>
    /\ UNCHANGED DriverFrame

\* type_text: the loop is over, Ok(())
TypeTextReturn ==
    /\ pc = "tt_loop"
    /\ idx > Len(input.text)
    /\ pc' = "done"
    /\ result' = "Ok"
    /\ UNCHANGED << socket, pending, outbuf, wire, trace, idx, cur >>
    /\ UNCHANGED DriverFrame

\* type_key flushing after the shift press as well as after the key press
TkPress_FlushPerKey ==
    /\ pc = "tk_press"
    /\ trace' = trace
                \o (IF cur.shift
                    THEN << KeyReq(KEY_LEFTSHIFT, Press), FrameReq(last_serial),
                            Req("flush", 1, 0) >>
                    ELSE << >>)
                \o << KeyReq(cur.code, Press), FrameReq(last_serial), Req("flush", 1, 0) >>
    /\ wire' = wire \o outbuf \o TkPressReqs(cur.code, cur.shift, last_serial)
    /\ outbuf' = << >>
    /\ pc' = "tk_sleep"
    /\ UNCHANGED << result, socket, pending, idx, cur >>
    /\ UNCHANGED DriverFrame

\* type_key lines 344-351: presses and the first flush
TkPress ==
    /\ pc = "tk_press"
    /\ \E ok \in BOOLEAN :
         EnqueueAndFlush(TkPressReqs(cur.code, cur.shift, last_serial), ok, "tk_sleep")
    /\ UNCHANGED << socket, pending, idx, cur >>
    /\ UNCHANGED DriverFrame

\* type_key lines 352-362: after the sleep, releases and the second flush
TkRelease ==
    /\ pc = "tk_sleep"
    /\ \E ok \in BOOLEAN :
         EnqueueAndFlush(TkReleaseReqs(cur.code, cur.shift, last_serial), ok, "tk_dispatch")
    /\ UNCHANGED << socket, pending, idx, cur >>
    /\ UNCHANGED DriverFrame

\* type_key line 363
TkDispatch ==
    /\ pc = "tk_dispatch"
    /\ Dispatch
    /\ pc' = "tk_settle"
    /\ UNCHANGED << wire, result, idx, cur >>
    /\ UNCHANGED DriverFrame

\* type_key lines 364-365: after the settle sleep, back to the loop of type_text
TkReturn ==
    /\ pc = "tk_settle"
    /\ pc' = "tt_loop"
    /\ idx' = idx + 1
    /\ cur' = NoCur
    /\ UNCHANGED << socket, pending, outbuf, wire, trace, result >>
    /\ UNCHANGED DriverFrame

\* send_key_combo pressing each modifier as it is recognised, before the
\* whole specification has been validated
KcPress_PressWhileParsing ==
    /\ pc = "kc_start"
    /\ LET p == parse_combo(input.text)
           parts == Split(input.text, 43)
           known == SelectSeq([i \in 1..(Len(parts) - 1) |-> ModifierCode(parts[i])],
                              LAMBDA m : m # 0)
       IN
       IF ~p.ok
       THEN /\ pc' = "done"
            /\ result' = p.err
            /\ trace' = trace \o Concat([i \in 1..Len(known) |->
                           << KeyReq(known[i], Press), FrameReq(last_serial) >>])
            /\ outbuf' = outbuf \o Concat([i \in 1..Len(known) |->
                           << KeyReq(known[i], Press), FrameReq(last_serial) >>])
            /\ UNCHANGED << wire, cur >>
       ELSE /\ cur' = [code |-> p.key, shift |-> FALSE, modifiers |-> p.modifiers]
            /\ \E ok \in BOOLEAN :
                 EnqueueAndFlush(KcPressReqs(p.modifiers, p.key, last_serial), ok, "kc_sleep")
    /\ UNCHANGED << socket, pending, idx >>
    /\ UNCHANGED DriverFrame

\* send_key_combo lines 310-321: parse, presses and the first flush
KcPress ==
    /\ pc = "kc_start"
    /\ LET p == parse_combo(input.text) IN
       IF ~p.ok
       THEN /\ pc' = "done"
            /\ result' = p.err
            /\ UNCHANGED << outbuf, wire, trace, cur >>
       ELSE /\ cur' = [code |-> p.key, shift |-> FALSE, modifiers |-> p.modifiers]
            /\ \E ok \in BOOLEAN :
                 EnqueueAndFlush(KcPressReqs(p.modifiers, p.key, last_serial), ok, "kc_sleep")
    /\ UNCHANGED << socket, pending, idx >>
    /\ UNCHANGED DriverFrame

\* send_key_combo lines 322-333: after the sleep, releases and the second flush
KcRelease ==
    /\ pc = "kc_sleep"
    /\ \E ok \in BOOLEAN :
         EnqueueAndFlush(KcReleaseReqs(cur.modifiers, cur.code, last_serial), ok, "kc_dispatch")
    /\ UNCHANGED << socket, pending, idx, cur >>
    /\ UNCHANGED DriverFrame

\* send_key_combo lines 334-335
KcDispatch ==
    /\ pc = "kc_dispatch"
    /\ Dispatch
    /\ pc' = "done"
    /\ result' = "Ok"
    /\ UNCHANGED << wire, idx, cur >>
    /\ UNCHANGED DriverFrame

\* the server sends an event while the driver runs
DriverServerSend ==
    /\ pc \in { "tt_loop", "tk_press", "tk_sleep", "tk_dispatch", "tk_settle",
                "kc_start", "kc_sleep", "kc_dispatch" }
    /\ Len(SelectSeq(trace, LAMBDA r : r.k = "event_in")) < MaxIncoming
    /\ \E e \in DriverEvents :
         /\ socket' = Append(socket, e)
         /\ trace' = Append(trace, Req("event_in", IF IsPing(e) THEN 1 ELSE 0, 0))
    /\ UNCHANGED << pc, pending, outbuf, wire, result, idx, cur >>
    /\ UNCHANGED DriverFrame

\* the handle as connect leaves it, and the operation main() calls on it
DriverInit ==
    /\ \E op \in { "type_text", "send_key_combo" } :
       \E t \in (IF op = "type_text" THEN Texts ELSE Combos) :
       \E s \in HandleSerials :
         /\ input = [op |-> op, text |-> t, serial |-> s]
         /\ last_serial = s
         /\ pc = IF op = "type_text" THEN "tt_loop" ELSE "kc_start"
    /\ socket = << >>
    /\ pending = << >>
    /\ outbuf = << >>
    /\ wire = << >>
    /\ trace = << >>
    /\ result = "none"
    /\ seat_caps = EmptyMap
    /\ keyboard = 1
    /\ kbd_device = 1
    /\ device_interfaces = EmptyMap
    /\ ready = TRUE
    /\ had_events = FALSE
    /\ timeout_count = 0
    /\ hist = HistInit
    /\ idx = 1
    /\ cur = NoCur

DriverNext ==
    \/ TypeTextNext
    \/ TypeTextReturn
    \/ TkPress
    \/ TkRelease
    \/ TkDispatch
    \/ TkReturn
    \/ KcPress
    \/ KcRelease
    \/ KcDispatch
    \/ DriverServerSend

DriverSpec == DriverInit /\ [][DriverNext]_vars

-----------------------------------------------------------------------------
(* Properties of the emulation driver (checked under DriverSpec) *)

IsPrefix(a, b) == Len(a) <= Len(b) /\ SubSeq(b, 1, Len(a)) = a

KeyReqs(tr) == SelectSeq(tr, LAMBDA r : r.k = "key")

\* the requests enqueued by the program, without arrivals and call markers
Out(tr) == SelectSeq(tr, LAMBDA r : r.k \notin { "event_in", "type_key" })

Markers == { j \in 1..Len(trace) : trace[j].k = "type_key" }

\* the last flush before position j (0 if none)
LastFlushBefore(j) ==
    LET fs == { f \in 1..(j - 1) : trace[f].k = "flush" } IN
    IF fs = {} THEN 0 ELSE CHOOSE f \in fs : \A g \in fs : g <= f

\* the part of the trace that belongs to the type_key call started at marker j
SegEnd(j) ==
    LET later == { m \in Markers : m > j } IN
    IF later = {} THEN Len(trace) ELSE (CHOOSE m \in later : \A n \in later : m <= n) - 1

Segment(j) == SubSeq(trace, j + 1, SegEnd(j))

\* the type_key call started at marker j has returned Ok
Returned(j) ==
    \/ \E m \in Markers : m > j
    \/ pc = "tt_loop"
    \/ pc = "done" /\ result = "Ok"

NumFlushes(seg) == Len(SelectSeq(seg, LAMBDA r : r.k = "flush"))

\* C6: a keep-alive ping that arrives between two key transactions (after the
\* release flush of one type_key and before the first key press of the next)
\* is answered with done(0) before that next key press is enqueued.
C6_PingAnsweredBeforeNextKey ==
    \A j \in Markers :
        LastFlushBefore(j) > 0 =>
            \A i \in (LastFlushBefore(j) + 1)..(j - 1) :
                (trace[i].k = "event_in" /\ trace[i].a = 1) =>
                    \E d \in (i + 1)..(j - 1) : trace[d] = PingDone

\* the key requests of a combo with modifiers m1..mn and key k, in the order
\* press m1..mn, press k, release k, release mn..m1
ComboKeyOrder(modifiers, keycode) ==
    LET n == Len(modifiers) IN
    [i \in 1..(2 * n + 2) |->
        IF i <= n THEN KeyReq(modifiers[i], Press)
        ELSE IF i = n + 1 THEN KeyReq(keycode, Press)
        ELSE IF i = n + 2 THEN KeyReq(keycode, Released)
        ELSE KeyReq(modifiers[2 * n + 3 - i], Released)]

\* C7: send_key_combo emits its key requests in the order press m1..mn,
\* press k, release k, release mn..m1: what has been emitted is always a
\* prefix of that sequence, and all of it once the call has returned Ok.
C7_ComboReleaseReversesPress ==
    (input.op = "send_key_combo" /\ parse_combo(input.text).ok) =>
        LET p == parse_combo(input.text)
            expected == ComboKeyOrder(p.modifiers, p.key)
        IN  /\ IsPrefix(KeyReqs(trace), expected)
            /\ (result = "Ok" => KeyReqs(trace) = expected)

C7_Witness ==
    /\ input.op = "send_key_combo"
    /\ result = "Ok"
    /\ Len(KeyReqs(trace)) = 8
    /\ KeyReqs(trace)[1].a # KeyReqs(trace)[2].a
    /\ KeyReqs(trace)[2].a # KeyReqs(trace)[3].a
    /\ KeyReqs(trace)[1].a # KeyReqs(trace)[3].a

\* C8: in type_key and send_key_combo every key request is immediately
\* followed by exactly one frame request carrying the handle's last_serial,
\* every frame covers exactly one key request, and last_serial keeps the
\* value the handle was built with.
C8_OneFramePerKey ==
    LET o == Out(trace) IN
    /\ \A i \in 1..Len(o) :
          o[i].k = "key" => (i < Len(o) /\ o[i + 1] = FrameReq(last_serial))
    /\ \A i \in 1..Len(o) :
          o[i].k = "frame" => (i > 1 /\ o[i - 1].k = "key")
    /\ last_serial = input.serial

C8_Witness ==
    /\ input.op = "type_text"
    /\ result = "Ok"
    /\ Len(KeyReqs(trace)) >= 6
    /\ \E i \in 1..Len(trace) : trace[i] = PingDone
    /\ \E i \in 1..Len(trace) : trace[i] = KeyReq(KEY_LEFTSHIFT, Press)

\* C9 as stated: a type_key call that returned performed exactly two flushes
\* for an unshifted key and four for a shifted key.
C9_FourFlushesWhenShifted ==
    \A j \in Markers :
        Returned(j) => NumFlushes(Segment(j)) = (IF trace[j].b = 1 THEN 4 ELSE 2)

\* keys and flushes of one type_key call: press(es), flush, release(s), flush
TransactionShape(code, shift) ==
    (IF shift THEN << KeyReq(KEY_LEFTSHIFT, Press) >> ELSE << >>)
    \o << KeyReq(code, Press), Req("flush", 1, 0), KeyReq(code, Released) >>
    \o (IF shift THEN << KeyReq(KEY_LEFTSHIFT, Released) >> ELSE << >>)
    \o << Req("flush", 1, 0) >>

\* C9 (amended): every type_key call that returned Ok performed exactly two
\* flushes, one after the press(es) and one after the release(s), for a
\* shifted key as for an unshifted one.
C9_TwoFlushesPerKey ==
    \A j \in Markers :
        Returned(j) =>
            /\ NumFlushes(Segment(j)) = 2
            /\ SelectSeq(Segment(j), LAMBDA r : r.k \in { "key", "flush" })
                  = TransactionShape(trace[j].a, trace[j].b = 1)

C9_Witness ==
    \E j \in Markers :
        /\ Returned(j)
        /\ trace[j].b = 1
        /\ Len(SelectSeq(Segment(j), LAMBDA r : r.k = "key")) = 4

\* C10: when parse_combo rejects the combo specification, send_key_combo
\* returns the parse error and no key request, no frame request and no flush
\* was ever issued.
C10_RejectedComboSendsNothing ==
    (input.op = "send_key_combo" /\ ~parse_combo(input.text).ok) =>
        /\ \A i \in 1..Len(trace) : trace[i].k \notin { "key", "frame", "flush" }
        /\ outbuf = << >>
        /\ wire = << >>
        /\ pc \in { "kc_start", "done" }
        /\ (pc = "done" => result \in { "unknown modifier", "unknown key" })

C10_Witness ==
    /\ input.op = "send_key_combo"
    /\ input.text = S_ctrl \o << 43 >> \o S_alt \o << 43 >> \o << 102, 111, 111 >>
    /\ pc = "done"
    /\ result = "unknown key"

-----------------------------------------------------------------------------
(* Bounds and input sets of the session establisher *)

MaxEvents == 3          \* events the server delivers during one establishment
MaxBatch == 2           \* events that arrive between two reads
MaxEintr == 2           \* interrupted polls in a row

ei_keyboard == 1        \* interface name "ei_keyboard"
ei_pointer == 2         \* interface name "ei_pointer"

Seats == { 1, 2 }
Devices == { 1, 2 }

\* <<device, interface>> of the Interface events the server may send
InterfaceAnnouncements == { << 1, ei_keyboard >>, << 1, ei_pointer >>, << 2, ei_keyboard >> }

\* <<interface, mask>> of the Capability events the server may send
CapAnnouncements == { << ei_keyboard, 1 >>, << ei_pointer, 3 >> }

\* the Seat event stands for every event connect matches and ignores
ConnEvents ==
    { Ev("Ping", 0, 0, 0), Ev("Disconnected", 0, 0, 0), Ev("Seat", 0, 0, 0),
      Ev("ParseError", 0, 0, 0), Ev("SeatDevice", 1, 0, 0) }
    \cup { Ev("Capability", st, c[1], c[2]) : st \in Seats, c \in CapAnnouncements }
    \cup { Ev("SeatDone", st, 0, 0) : st \in Seats }
    \cup { Ev("Interface", a[1], a[2], 0) : a \in InterfaceAnnouncements }
    \cup { Ev("DeviceDone", d, 0, 0) : d \in Devices }
    \cup { Ev("Resumed", d, 0, 0) : d \in Devices }

IsDeviceEvent(e) == e.k \in { "SeatDevice", "Interface", "DeviceDone", "Resumed" }

Min(a, b) == IF a < b THEN a ELSE b

\* line 95
max_timeouts == 10

\* the batches of at most n events
Batches(n) == UNION { [1..m -> ConnEvents] : m \in 0..n }

\* the server stamps its serial on the Resumed events it sends
Stamp(batch, base) ==
    [i \in 1..Len(batch) |->
        IF batch[i].k = "Resumed" THEN [batch[i] EXCEPT !.a = base + i] ELSE batch[i]]

\* the history after the server delivered `batch`
Delivered(h, batch) ==
    [h EXCEPT !.sent = @ + Len(batch),
              !.serial = @ + Len(batch),
              !.devSent = @ \/ \E i \in 1..Len(batch) : IsDeviceEvent(batch[i]),
              !.kbdSent = @ \/ \E i \in 1..Len(batch) :
                                 batch[i].k = "Interface" /\ batch[i].a = ei_keyboard]

\* the history after a drain that answers pings and discards the rest
Discarded(h, events) ==
    [h EXCEPT !.discConsumed = @ \/ \E i \in 1..Len(events) : events[i].k = "Disconnected"]

-----------------------------------------------------------------------------
(* eis.rs: EisConnection::connect *)

RECURSIVE SumValues(_)
\* seat_caps.values().copied().sum()
SumValues(m) ==
    IF DOMAIN m = {} THEN 0
    ELSE LET x == CHOOSE y \in DOMAIN m : TRUE
         IN  m[x] + SumValues([z \in DOMAIN m \ {x} |-> m[z]])

\* HashMap::insert
Insert(m, key, value) == (key :> value) @@ m

ConnFrame == << input, idx, cur >>

\* return Err(e)
ReturnErr(e) ==
    /\ pc' = "done"
    /\ result' = e

\* lines 45-57: Context::new and the blocking handshake; what the server sent
\* behind the handshake response is read with it and stays buffered
Handshake ==
    /\ pc = "handshake"
    /\ \/ /\ ReturnErr("HandshakeFailed")
          /\ UNCHANGED << pending, last_serial, hist >>
       \/ \E batch \in Batches(Min(MaxBatch, MaxEvents - hist.sent)) :
             /\ pending' = Stamp(batch, hist.serial)
             /\ last_serial' = hist.serial
             /\ hist' = Delivered(hist, batch)
             /\ pc' = "sync"
             /\ result' = result
    /\ UNCHANGED << socket, outbuf, wire, trace, seat_caps, keyboard, kbd_device,
                    device_interfaces, ready, had_events, timeout_count >>
    /\ UNCHANGED ConnFrame

\* lines 65-82: sync, drain of the events buffered by the handshake, flush
SyncAndDrain ==
    /\ pc = "sync"
    /\ LET reqs == << Req("sync", 1, 0) >> \o PingAnswers(pending) IN
       \E ok \in BOOLEAN :
          /\ trace' = trace \o reqs \o << Req("flush", IF ok THEN 1 ELSE 0, 0) >>
          /\ IF ok
             THEN /\ wire' = wire \o outbuf \o reqs
                  /\ outbuf' = << >>
                  /\ pc' = "loop"
                  /\ result' = result
             ELSE /\ wire' = wire
                  /\ outbuf' = outbuf \o reqs
                  /\ ReturnErr("TransportError")
    /\ hist' = Discarded(hist, pending)
    /\ pending' = << >>
    /\ UNCHANGED << socket, last_serial, seat_caps, keyboard, kbd_device,
                    device_interfaces, ready, had_events, timeout_count >>
    /\ UNCHANGED ConnFrame

\* line 97-99: the guard of the establishment loop
LoopTest ==
    /\ pc = "loop"
    /\ IF ~ready /\ timeout_count < max_timeouts
       THEN /\ had_events' = FALSE
            /\ pc' = "drain"
       ELSE /\ had_events' = had_events
            /\ pc' = "after"
    /\ UNCHANGED << socket, pending, outbuf, wire, trace, result, last_serial,
                    seat_caps, keyboard, kbd_device, device_interfaces, ready,
                    timeout_count, hist >>
    /\ UNCHANGED ConnFrame

\* a request followed by context.flush()? inside the drain loop
RequestAndFlush(req) ==
    \E ok \in BOOLEAN :
       /\ trace' = trace \o << req, Req("flush", IF ok THEN 1 ELSE 0, 0) >>
       /\ IF ok
          THEN /\ wire' = wire \o outbuf \o << req >>
               /\ outbuf' = << >>
               /\ pc' = pc
               /\ result' = result
          ELSE /\ wire' = wire
               /\ outbuf' = Append(outbuf, req)
               /\ ReturnErr("TransportError")

NoRequest == UNCHANGED << outbuf, wire, trace, pc, result >>

\* lines 100-197: pending_event() yields an event and the match handles it
HandleEvent ==
    /\ pc = "drain"
    /\ pending # << >>
    /\ had_events' = TRUE
    /\ pending' = Tail(pending)
    /\ LET e == Head(pending) IN
       CASE e.k = "ParseError" ->
              /\ ReturnErr("parse error")
              /\ UNCHANGED << outbuf, wire, trace, last_serial, seat_caps, keyboard,
                              kbd_device, device_interfaces, ready, hist >>
         [] e.k \in { "InvalidObject", "Seat", "Keyboard" } ->
              /\ NoRequest
              /\ UNCHANGED << last_serial, seat_caps, keyboard, kbd_device,
                              device_interfaces, ready, hist >>
         [] e.k = "Ping" ->
              /\ RequestAndFlush(PingDone)
              /\ UNCHANGED << last_serial, seat_caps, keyboard, kbd_device,
                              device_interfaces, ready, hist >>
         [] e.k = "Disconnected" ->
              /\ ReturnErr("server disconnected")
              /\ hist' = [hist EXCEPT !.discConsumed = TRUE]
              /\ UNCHANGED << outbuf, wire, trace, last_serial, seat_caps, keyboard,
                              kbd_device, device_interfaces, ready >>
         [] e.k = "Capability" ->
              /\ seat_caps' = Insert(seat_caps, e.a, e.b)
              /\ hist' = [hist EXCEPT !.caps[e.o] = @ \cup { e.b }]
              /\ NoRequest
              /\ UNCHANGED << last_serial, keyboard, kbd_device, device_interfaces, ready >>
         [] e.k = "SeatDone" ->
              /\ RequestAndFlush(Req("bind", SumValues(seat_caps), e.o))
              /\ hist' = [hist EXCEPT !.bindAfterDisc = @ \/ hist.discConsumed,
                                      !.lastBind = [seat |-> e.o,
                                                    mask |-> SumValues(seat_caps),
                                                    announced |-> hist.caps[e.o]]]
              /\ UNCHANGED << last_serial, seat_caps, keyboard, kbd_device,
                              device_interfaces, ready >>
         [] e.k = "SeatDevice" ->
              /\ device_interfaces' = EmptyMap
              /\ NoRequest
              /\ UNCHANGED << last_serial, seat_caps, keyboard, kbd_device, ready, hist >>
         [] e.k = "Interface" ->
              /\ device_interfaces' = Insert(device_interfaces, e.a, e.o)
              /\ hist' = [hist EXCEPT !.kbd = IF e.a = ei_keyboard THEN @ \cup { e.o } ELSE @]
              /\ NoRequest
              /\ UNCHANGED << last_serial, seat_caps, keyboard, kbd_device, ready >>
         [] e.k = "DeviceDone" ->
              /\ IF ei_keyboard \in DOMAIN device_interfaces
                 THEN /\ keyboard' = device_interfaces[ei_keyboard]
                      /\ kbd_device' = e.o
                 ELSE UNCHANGED << keyboard, kbd_device >>
              /\ hist' = [hist EXCEPT !.done = @ \cup { e.o }]
              /\ NoRequest
              /\ UNCHANGED << last_serial, seat_caps, device_interfaces, ready >>
         [] e.k = "Resumed" ->
              /\ last_serial' = e.a
              /\ ready' = (ready \/ keyboard # 0)
              /\ hist' = [hist EXCEPT !.resumed = @ \cup { e.o },
                                      !.lastResumed = e.a,
                                      !.readyBy = IF keyboard # 0 /\ ~ready THEN { e.o } ELSE @]
              /\ NoRequest
              /\ UNCHANGED << seat_caps, keyboard, kbd_device, device_interfaces >>
    /\ UNCHANGED << socket, timeout_count >>
    /\ UNCHANGED ConnFrame

\* lines 199-209: no event is pending any more; flush (result ignored), then
\* back to the loop guard if events were handled, else on to the poll
DrainEnd ==
    /\ pc = "drain"
    /\ pending = << >>
    /\ \E ok \in BOOLEAN :
          IF ok /\ outbuf # << >>
          THEN /\ wire' = wire \o outbuf
               /\ outbuf' = << >>
          ELSE UNCHANGED << wire, outbuf >>
    /\ pc' = IF had_events THEN "loop" ELSE "poll"
    /\ UNCHANGED << socket, pending, trace, result, last_serial, seat_caps, keyboard,
                    kbd_device, device_interfaces, ready, had_events, timeout_count, hist >>
    /\ UNCHANGED ConnFrame

\* lines 212-215: poll_readable returns Ok(true) and context.read() reads
\* what has arrived (or fails)
PollReadable ==
    /\ pc = "poll"
    /\ hist.sent < MaxEvents
    /\ \/ \E batch \in Batches(Min(MaxBatch, MaxEvents - hist.sent)) \ { << >> } :
             /\ pending' = Stamp(batch, hist.serial)
             /\ hist' = [Delivered(hist, batch) EXCEPT
                            !.polls = Min(@ + 1, max_timeouts + 1), !.eintr = 0]
             /\ pc' = "loop"
             /\ result' = result
       \/ /\ ReturnErr("TransportError")
          /\ hist' = [hist EXCEPT !.polls = Min(@ + 1, max_timeouts + 1), !.eintr = 0]
          /\ UNCHANGED pending
    /\ UNCHANGED << socket, outbuf, wire, trace, last_serial, seat_caps, keyboard,
                    kbd_device, device_interfaces, ready, had_events, timeout_count >>
    /\ UNCHANGED ConnFrame

\* lines 216-221: poll_readable returns Ok(false) after 500ms
PollTimeout ==
    /\ pc = "poll"
    /\ timeout_count' = timeout_count + 1
    /\ hist' = [hist EXCEPT !.polls = Min(@ + 1, max_timeouts + 1), !.eintr = 0]
    /\ pc' = "loop"
    /\ UNCHANGED << socket, pending, outbuf, wire, trace, result, last_serial,
                    seat_caps, keyboard, kbd_device, device_interfaces, ready,
                    had_events >>
    /\ UNCHANGED ConnFrame

\* line 222: poll fails with EINTR, the loop goes round
PollInterrupted ==
    /\ pc = "poll"
    /\ hist.eintr < MaxEintr
    /\ hist' = [hist EXCEPT !.eintr = @ + 1]
    /\ pc' = "loop"
    /\ UNCHANGED << socket, pending, outbuf, wire, trace, result, last_serial,
                    seat_caps, keyboard, kbd_device, device_interfaces, ready,
                    had_events, timeout_count >>
    /\ UNCHANGED ConnFrame

\* line 223: poll fails with another error
PollError ==
    /\ pc = "poll"
    /\ ReturnErr("TransportError")
    /\ UNCHANGED hist
    /\ UNCHANGED << socket, pending, outbuf, wire, trace, last_serial, seat_caps,
                    keyboard, kbd_device, device_interfaces, ready, had_events,
                    timeout_count >>
    /\ UNCHANGED ConnFrame

\* start_emulating carrying the serial of the handshake response
StartEmulating_HandshakeSerial ==
    /\ pc = "after"
    /\ IF timeout_count >= max_timeouts
       THEN /\ ReturnErr("timeout")
            /\ UNCHANGED << outbuf, wire, trace >>
       ELSE IF keyboard = 0
       THEN /\ ReturnErr("no keyboard device found")
            /\ UNCHANGED << outbuf, wire, trace >>
       ELSE IF kbd_device = 0
       THEN /\ ReturnErr("no device found")
            /\ UNCHANGED << outbuf, wire, trace >>
       ELSE LET req == Req("start_emulating", HistInit.serial, kbd_device) IN
            \E ok \in BOOLEAN :
               /\ trace' = trace \o << req, Req("flush", IF ok THEN 1 ELSE 0, 0) >>
               /\ IF ok
                  THEN /\ wire' = wire \o outbuf \o << req >>
                       /\ outbuf' = << >>
                       /\ pc' = "final"
                       /\ result' = result
                  ELSE /\ wire' = wire
                       /\ outbuf' = Append(outbuf, req)
                       /\ ReturnErr("TransportError")
    /\ UNCHANGED << socket, pending, last_serial, seat_caps, keyboard, kbd_device,
                    device_interfaces, ready, had_events, timeout_count, hist >>
    /\ UNCHANGED ConnFrame

\* lines 227-235: after the loop
StartEmulating ==
    /\ pc = "after"
    /\ IF timeout_count >= max_timeouts
       THEN /\ ReturnErr("timeout")
            /\ UNCHANGED << outbuf, wire, trace >>
       ELSE IF keyboard = 0
       THEN /\ ReturnErr("no keyboard device found")
            /\ UNCHANGED << outbuf, wire, trace >>
       ELSE IF kbd_device = 0
       THEN /\ ReturnErr("no device found")
            /\ UNCHANGED << outbuf, wire, trace >>
       ELSE LET req == Req("start_emulating", last_serial, kbd_device) IN
            \E ok \in BOOLEAN :
               /\ trace' = trace \o << req, Req("flush", IF ok THEN 1 ELSE 0, 0) >>
               /\ IF ok
                  THEN /\ wire' = wire \o outbuf \o << req >>
                       /\ outbuf' = << >>
                       /\ pc' = "final"
                       /\ result' = result
                  ELSE /\ wire' = wire
                       /\ outbuf' = Append(outbuf, req)
                       /\ ReturnErr("TransportError")
    /\ UNCHANGED << socket, pending, last_serial, seat_caps, keyboard, kbd_device,
                    device_interfaces, ready, had_events, timeout_count, hist >>
    /\ UNCHANGED ConnFrame

\* lines 239-271: drain, one more read (result ignored), drain, flush (result
\* ignored), and the handle is returned
FinalDrain ==
    /\ pc = "final"
    /\ \E batch \in Batches(Min(MaxBatch, MaxEvents - hist.sent)) :
       \E ok \in BOOLEAN :
          LET events == pending \o Stamp(batch, hist.serial)
              reqs == PingAnswers(events)
          IN  /\ hist' = Discarded(Delivered(hist, batch), events)
              /\ trace' = trace \o reqs
              /\ IF ok
                 THEN /\ wire' = wire \o outbuf \o reqs
                      /\ outbuf' = << >>
                 ELSE /\ wire' = wire
                      /\ outbuf' = outbuf \o reqs
    /\ pending' = << >>
    /\ pc' = "done"
    /\ result' = "Ok"
    /\ UNCHANGED << socket, last_serial, seat_caps, keyboard, kbd_device,
                    device_interfaces, ready, had_events, timeout_count >>
    /\ UNCHANGED ConnFrame

Init ==
    /\ pc = "handshake"
    /\ socket = << >>
    /\ pending = << >>
    /\ outbuf = << >>
    /\ wire = << >>
    /\ trace = << >>
    /\ result = "none"
    /\ last_serial = 0
    /\ seat_caps = EmptyMap
    /\ keyboard = 0
    /\ kbd_device = 0
    /\ device_interfaces = EmptyMap
    /\ ready = FALSE
    /\ had_events = FALSE
    /\ timeout_count = 0
    /\ hist = HistInit
    /\ input = [op |-> "connect", text |-> << >>, serial |-> 0]
    /\ idx = 1
    /\ cur = NoCur

Next ==
    \/ Handshake
    \/ SyncAndDrain
    \/ LoopTest
    \/ HandleEvent
    \/ DrainEnd
    \/ PollReadable
    \/ PollTimeout
    \/ PollInterrupted
    \/ PollError
    \/ StartEmulating
    \/ FinalDrain

Spec == Init /\ [][Next]_vars

-----------------------------------------------------------------------------
(* Properties of the session establisher (checked under Spec) *)

RECURSIVE BitOr(_, _)
BitOr(a, b) ==
    IF a = 0 THEN b
    ELSE IF b = 0 THEN a
    ELSE (IF a % 2 = 1 \/ b % 2 = 1 THEN 1 ELSE 0) + 2 * BitOr(a \div 2, b \div 2)

RECURSIVE UnionOfMasks(_)
UnionOfMasks(masks) ==
    IF masks = {} THEN 0
    ELSE LET m == CHOOSE x \in masks : TRUE
         IN  BitOr(m, UnionOfMasks(masks \ { m }))

\* C1: once a Disconnected event has been taken from the context, whether in
\* the establishment loop or in one of the drains around it, connect has
\* returned at once with the "server disconnected" error, never with a
\* handle, and no seat.bind is issued afterwards.  (A flush that fails in the
\* very step that took the event is let through as the transport error.)
C1_DisconnectFailsConnect ==
    hist.discConsumed =>
        /\ pc = "done"
        /\ result \in { "server disconnected", "TransportError" }
        /\ ~hist.bindAfterDisc

\* C2: the device of a returned handle announced an ei_keyboard interface,
\* had its Done event handled and was itself resumed, and the Resumed event
\* that set ready was addressed to that device.
C2_HandleDeviceIsResumedKeyboard ==
    result = "Ok" =>
        /\ kbd_device \in hist.kbd
        /\ kbd_device \in hist.done
        /\ kbd_device \in hist.resumed
        /\ hist.readyBy = { kbd_device }

\* C3: whenever connect returns a handle, a seat.bind request was issued
\* before the start_emulating request.
C3_BindBeforeStartEmulating ==
    result = "Ok" =>
        \E i, j \in 1..Len(trace) :
            /\ i < j
            /\ trace[i].k = "bind"
            /\ trace[j].k = "start_emulating"

\* C4: the mask of every seat.bind is the bitwise OR of the masks of the
\* capabilities announced for the seat whose Done event triggered it.
C4_BindMaskIsUnion ==
    hist.lastBind.seat # 0 =>
        hist.lastBind.mask = UnionOfMasks(hist.lastBind.announced)

\* C5: as long as the server has announced no device, connect polls at most
\* max_timeouts times and never returns a handle.
C5_NoDeviceBoundedPolls ==
    ~hist.devSent =>
        /\ hist.polls <= max_timeouts
        /\ result # "Ok"

-----------------------------------------------------------------------------
(* Properties of parse_combo as send_key_combo applies it (DriverSpec) *)

\* the tokens of the combo specification: modifiers, then the key
ComboModTokens ==
    LET parts == Split(input.text, 43) IN SubSeq(parts, 1, Len(parts) - 1)

ComboKeyToken == LET parts == Split(input.text, 43) IN parts[Len(parts)]

\* the keycode a modifier token of the input set stands for (0: not a modifier)
ExpectedModifier(tok) ==
    IF tok = << 99, 116, 114, 108 >> THEN 29                  \* "ctrl"  -> LEFTCTRL
    ELSE IF tok = << 83, 104, 105, 102, 116 >> THEN 42        \* "Shift" -> LEFTSHIFT
    ELSE IF tok = << 97, 108, 116 >> THEN 56                  \* "alt"   -> LEFTALT
    ELSE 0

ExpectedModifiers == [i \in 1..Len(ComboModTokens) |-> ExpectedModifier(ComboModTokens[i])]

\* send_key_combo has parsed its combo and parse_combo accepted it
ComboParsed ==
    /\ input.op = "send_key_combo"
    /\ pc # "kc_start"
    /\ result \notin { "unknown modifier", "unknown key" }

\* C11: when the key token is a single character for which char_to_key
\* reports shift (such as "A"), every modifier token is known and none of
\* them is shift, parse_combo accepts the combo and returns the modifiers
\* with LEFTSHIFT appended and the keycode of the character.
C11_ShiftedKeyAddsShift ==
    ( /\ input.op = "send_key_combo"
      /\ pc # "kc_start"
      /\ Len(ComboKeyToken) = 1
      /\ char_to_key(ComboKeyToken[1]).shift
      /\ ~Contains(ExpectedModifiers, 0)
      /\ ~Contains(ExpectedModifiers, KEY_LEFTSHIFT) )
    => /\ ComboParsed
       /\ cur.modifiers = Append(ExpectedModifiers, KEY_LEFTSHIFT)
       /\ cur.code = char_to_key(ComboKeyToken[1]).code

\* C12: for a combo that parses, the modifiers returned start with one keycode
\* per modifier token, in the order of the tokens, duplicates kept; the only
\* thing that may follow is one LEFTSHIFT added for the key, and only when no
\* modifier token was shift.
C12_ModifierOrderPreserved ==
    ComboParsed =>
        LET n == Len(ExpectedModifiers) IN
        /\ Len(cur.modifiers) \in { n, n + 1 }
        /\ SubSeq(cur.modifiers, 1, n) = ExpectedModifiers
        /\ Len(cur.modifiers) = n + 1 =>
              /\ cur.modifiers[n + 1] = KEY_LEFTSHIFT
              /\ ~Contains(ExpectedModifiers, KEY_LEFTSHIFT)

C12_Witness ==
    /\ ComboParsed
    /\ result = "Ok"
    /\ input.text = S_ctrl \o << 43 >> \o << 83, 104, 105, 102, 116 >> \o << 43, 118 >>
    /\ cur.modifiers = << KEY_LEFTCTRL, KEY_LEFTSHIFT >>
    /\ cur.code = KEY_V

-----------------------------------------------------------------------------
(* keymap.rs: char_to_key applied to characters, one call after another *)

MaxLookups == 2

\* 'A'..'Z', 'a'..'z', and ' ', '!', '1', '@', '`', '{', U+00E9
LookupChars == (65..90) \cup (97..122) \cup { 32, 33, 49, 64, 96, 123, 233 }

\* one call of char_to_key; trace collects the values returned
LookupChar ==
    /\ pc = "keymap"
    /\ idx <= Len(input.text)
    /\ trace' = Append(trace, char_to_key(input.text[idx]))
    /\ idx' = idx + 1
    /\ pc' = IF idx = Len(input.text) THEN "done" ELSE "keymap"
    /\ result' = IF idx = Len(input.text) THEN "Ok" ELSE result
    /\ UNCHANGED << socket, pending, outbuf, wire, last_serial, seat_caps,
                    keyboard, kbd_device, device_interfaces, ready, had_events,
                    timeout_count, hist, input, cur >>

KeymapInit ==
    /\ \E n \in 1..MaxLookups : \E t \in [1..n -> LookupChars] :
         input = [op |-> "char_to_key", text |-> t, serial |-> 0]
    /\ pc = "keymap"
    /\ socket = << >>
    /\ pending = << >>
    /\ outbuf = << >>
    /\ wire = << >>
    /\ trace = << >>
    /\ result = "none"
    /\ last_serial = 0
    /\ seat_caps = EmptyMap
    /\ keyboard = 0
    /\ kbd_device = 0
    /\ device_interfaces = EmptyMap
    /\ ready = FALSE
    /\ had_events = FALSE
    /\ timeout_count = 0
    /\ hist = HistInit
    /\ idx = 1
    /\ cur = NoCur

KeymapNext == LookupChar

KeymapSpec == KeymapInit /\ [][KeymapNext]_vars

IsLower(c) == c >= 97 /\ c <= 122
IsUpper(c) == c >= 65 /\ c <= 90

\* the lookups made so far
Looked == 1..Len(trace)

\* C13 (as stated): lowercase letters give shift = false and keycodes that
\* increase strictly with the letter; an uppercase letter gives the keycode of
\* its lowercase letter with shift = true.
C13_LetterCodesIncreasing ==
    input.op = "char_to_key" =>
        \A i, j \in Looked :
            /\ IsLower(input.text[i]) => trace[i].some /\ ~trace[i].shift
            /\ ( IsLower(input.text[i]) /\ IsLower(input.text[j])
                 /\ input.text[i] < input.text[j] )
               => trace[i].code < trace[j].code
            /\ ( IsUpper(input.text[i]) /\ input.text[j] = input.text[i] + 32 )
               => trace[i].some /\ trace[i].shift /\ trace[i].code = trace[j].code

\* C13 (amended): lowercase letters give shift = false and the evdev keycode
\* of the letter's key: one keycode per letter, different letters different
\* keycodes, all within the three letter rows (KEY_Q = 16 .. KEY_M = 50) and
\* not in letter order ('a' 30, 'b' 48, 'c' 46); an uppercase letter gives
\* the keycode of its lowercase letter with shift = true.
C13_LetterCodesDistinct ==
    input.op = "char_to_key" =>
        \A i, j \in Looked :
            /\ IsLower(input.text[i]) =>
                  /\ trace[i].some /\ ~trace[i].shift
                  /\ trace[i].code >= 16 /\ trace[i].code <= 50
            /\ ( IsLower(input.text[i]) /\ IsLower(input.text[j]) ) =>
                  ( (trace[i].code = trace[j].code) <=> (input.text[i] = input.text[j]) )
            /\ ( IsUpper(input.text[i]) /\ input.text[j] = input.text[i] + 32 )
               => trace[i].some /\ trace[i].shift /\ trace[i].code = trace[j].code
            /\ IsUpper(input.text[i]) => trace[i].some /\ trace[i].shift
            /\ input.text[i] = 97 => trace[i].code = 30
            /\ input.text[i] = 98 => trace[i].code = 48
            /\ input.text[i] = 99 => trace[i].code = 46

C13_Witness ==
    /\ input.op = "char_to_key"
    /\ pc = "done"
    /\ input.text = << 66, 98 >>
    /\ trace = << SomeKey(KEY_B, TRUE), SomeKey(KEY_B, FALSE) >>

-----------------------------------------------------------------------------
(* Properties of type_text and of flush failures (DriverSpec) *)

\* what the characters of the input set are typed as
ExpectedKey(c) ==
    IF c = 97 THEN SomeKey(30, FALSE)            \* 'a' -> KEY_A
    ELSE IF c = 66 THEN SomeKey(48, TRUE)        \* 'B' -> shift + KEY_B
    ELSE NoKey                                   \* U+00E9 has no mapping

\* the keys and flushes of typing a text: one transaction per mapped character
RECURSIVE ExpectedTyping(_)
ExpectedTyping(text) ==
    IF text = << >> THEN << >>
    ELSE LET ki == ExpectedKey(Head(text)) IN
         (IF ki.some THEN TransactionShape(ki.code, ki.shift) ELSE << >>)
         \o ExpectedTyping(Tail(text))

\* the key requests and flushes of a trace, every flush taken as a success
KeysAndFlushes(tr) ==
    LET kf == SelectSeq(tr, LAMBDA r : r.k \in { "key", "flush" }) IN
    [i \in 1..Len(kf) |-> IF kf[i].k = "flush" THEN Req("flush", 1, 0) ELSE kf[i]]

FlushFailed == \E i \in 1..Len(trace) : trace[i] = Req("flush", 0, 0)

\* C14: type_text emits one key transaction (press(es), flush, release(s),
\* flush) per character that has a mapping, in text order, each complete
\* before the next begins; a character without a mapping adds nothing and
\* does not end the call, which returns Ok once the text is exhausted unless
\* a flush failed.
C14_OneTransactionPerMappedChar ==
    input.op = "type_text" =>
        /\ IsPrefix(KeysAndFlushes(trace), ExpectedTyping(input.text))
        /\ (pc = "done" /\ ~FlushFailed) =>
              /\ result = "Ok"
              /\ KeysAndFlushes(trace) = ExpectedTyping(input.text)
        /\ result = "Ok" => ~FlushFailed
        /\ pc = "tt_loop" => \A i \in 1..Len(outbuf) : outbuf[i].k \notin { "key", "frame" }
        /\ pc = "tt_loop" => KeyReqs(wire) = KeyReqs(trace)

C14_Witness ==
    /\ input.op = "type_text"
    /\ input.text = << 233, 66 >>
    /\ result = "Ok"
    /\ KeysAndFlushes(trace) = TransactionShape(KEY_B, TRUE)

\* C15: a flush that fails during type_text or send_key_combo ends the call
\* with the transport error: the failed flush is the last request the call
\* issued (no key, frame or flush follows it, so it is not retried), and
\* what was enqueued before it stays unsent.
C15_FlushFailureAborts ==
    LET o == Out(trace) IN
    \A i \in 1..Len(o) :
        o[i] = Req("flush", 0, 0) =>
            /\ i = Len(o)
            /\ pc = "done"
            /\ result = "TransportError"
            /\ KeyReqs(outbuf) # << >>

C15_Witness ==
    /\ input.op = "type_text"
    /\ FlushFailed
    /\ pc = "done"
    /\ result = "TransportError"
    /\ idx < Len(input.text)
    /\ Len(KeyReqs(trace)) = 1

-----------------------------------------------------------------------------
(* Further properties of EisConnection::connect (checked under Spec) *)

\* a device went through Done and Resumed, and the server never advertised
\* a keyboard interface
NegotiatedWithoutKeyboard ==
    /\ hist.done \cap hist.resumed # {}
    /\ ~hist.kbdSent

\* C16: when the negotiation of a device completed (its Done and its Resumed
\* were handled) and no keyboard interface was ever advertised, connect, once
\* it has returned, has failed with "no keyboard device found" (or with the
\* error of a transport failure, a parse error or a disconnect that ended it
\* first): never with the timeout error.
C16_NoKeyboardIsReported ==
    (NegotiatedWithoutKeyboard /\ pc = "done") =>
        result \in { "no keyboard device found", "TransportError", "parse error",
                     "server disconnected" }

\* C17: the timeout counter counts empty polls in a row: a poll that yields
\* data (poll_readable returns true and the read brings events) sets the
\* count back to zero, so that only empty polls with nothing received in
\* between add up to the timeout.
C17_DataResetsTimeoutCount ==
    [][ (pc = "poll" /\ pc' = "loop" /\ pending' # << >>) => timeout_count' = 0 ]_vars

StartEmulatingReqs == { i \in 1..Len(trace) : trace[i].k = "start_emulating" }

Routable(e) ==
    e.k \in { "Capability", "SeatDone", "SeatDevice", "Interface", "DeviceDone", "Resumed" }

\* C19: before readiness, a buffered seat or device event leaves the buffer
\* only by being handed, first in first out, to the handlers of the
\* negotiation loop: whenever connect goes on after taking from a buffer
\* whose first event is such an event, it took exactly that event and did so
\* in the drain of the negotiation loop.
C19_BufferedEventsAreRouted ==
    [][ ( /\ ~ready
          /\ pending # << >>
          /\ Routable(Head(pending))
          /\ pending' # pending
          /\ pc' # "done" )
        => (pc = "drain" /\ pending' = Tail(pending)) ]_vars

\* C20: an interrupted poll is retried once; when the poll is interrupted a
\* second time in a row connect has returned an error.
C20_SecondInterruptionFails ==
    hist.eintr >= 2 => (pc = "done" /\ result \notin { "none", "Ok" })

\* C21: whenever connect returns a handle, the keyboard object and the device
\* object stored in it belong to the same device.
C21_KeyboardAndDeviceSameDevice ==
    result = "Ok" => keyboard = kbd_device

-----------------------------------------------------------------------------
(* Further properties of the emulation driver (checked under DriverSpec) *)

\* C22: when type_text or send_key_combo has returned Ok, every ping answer
\* that dispatch enqueued has been flushed: none is left in the outgoing
\* buffer.
C22_PingAnswersFlushedOnReturn ==
    ( /\ input.op \in { "type_text", "send_key_combo" }
      /\ pc = "done"
      /\ result = "Ok" )
    => \A i \in 1..Len(outbuf) : outbuf[i] # PingDone

\* how many times the request r occurs in the sequence of requests
Count(reqs, r) == Cardinality({ i \in 1..Len(reqs) : reqs[i] = r })

KeyCodesOf(reqs) == { reqs[i].a : i \in { j \in 1..Len(reqs) : reqs[j].k = "key" } }

\* C23: when type_text or send_key_combo has returned, with Ok or with an
\* error, every keycode has been released on the transport as often as it
\* has been pressed there; on Ok the same holds of the requests issued.
C23_NoKeyLeftHeld ==
    ( /\ input.op \in { "type_text", "send_key_combo" }
      /\ pc = "done" )
    => /\ \A c \in KeyCodesOf(wire) :
             Count(wire, KeyReq(c, Press)) = Count(wire, KeyReq(c, Released))
       /\ result = "Ok" =>
             \A c \in KeyCodesOf(trace) :
                Count(trace, KeyReq(c, Press)) = Count(trace, KeyReq(c, Released))

====
